---- MODULE Spec2Model ----
(***************************************************************************)
(* image-sort server (server/src/index.js): the folder tree under          *)
(* IMAGE_ROOT, and the handlers POST /api/buckets and POST /api/move,      *)
(* one step per filesystem call they await.                                *)
(*                                                                         *)
(* A name is a sequence of one-character strings, so that the name tests   *)
(* (basename, extname, the digit test, Number, String) are computed.       *)
(* The root folder is a function from entry names to entries; an entry is  *)
(* a file (size, content) or a directory (its own entries).                *)
(***************************************************************************)
EXTENDS Integers, Sequences, FiniteSets, TLC

\* ------------------------------------------------------------- bounds
\* Largest file size, in bytes, of the files the initial trees hold.
MaxSize == 2
\* POST /api/buckets is issued only while fewer bucket folders exist.
MaxBuckets == 3
\* Out-of-band deletions and bucket creations recorded in the log.
MaxLog == 4

\* ------------------------------------------------- program constants
\* index.js:14-15, envInt(...): the caps, here as the environment sets them.
MAX_BUCKET_PHOTOS == 2
MAX_BUCKET_BYTES == 4

\* Requests in flight at once (async handlers of one process).
Procs == {1, 2}

\* ---------------------------------------------------------------- names
Undefined == <<"<undefined>">>

IsString(name) == name # Undefined

Digits == {"0", "1", "2", "3", "4", "5", "6", "7", "8", "9"}

DigitVal ==
  ("0" :> 0) @@ ("1" :> 1) @@ ("2" :> 2) @@ ("3" :> 3) @@ ("4" :> 4) @@
  ("5" :> 5) @@ ("6" :> 6) @@ ("7" :> 7) @@ ("8" :> 8) @@ ("9" :> 9)

ValDigit == <<"0", "1", "2", "3", "4", "5", "6", "7", "8", "9">>

UpperToLower ==
  ("A" :> "a") @@ ("B" :> "b") @@ ("F" :> "f") @@ ("G" :> "g") @@
  ("I" :> "i") @@ ("J" :> "j") @@ ("N" :> "n") @@ ("P" :> "p") @@
  ("T" :> "t") @@ ("X" :> "x")

toLowerCase(s) ==
  [i \in DOMAIN s |-> IF s[i] \in DOMAIN UpperToLower THEN UpperToLower[s[i]] ELSE s[i]]

includes(s, sub) ==
  \E i \in 1..Len(s) :
    /\ i + Len(sub) - 1 <= Len(s)
    /\ SubSeq(s, i, i + Len(sub) - 1) = sub

\* Index of the last occurrence of character c in s, 0 when there is none.
lastIndexOf(s, c) ==
  IF \E i \in DOMAIN s : s[i] = c
    THEN CHOOSE i \in DOMAIN s : s[i] = c /\ \A j \in DOMAIN s : s[j] = c => j <= i
    ELSE 0

RECURSIVE stripTrailingSlashes(_)
stripTrailingSlashes(s) ==
  IF Len(s) > 1 /\ s[Len(s)] = "/"
    THEN stripTrailingSlashes(SubSeq(s, 1, Len(s) - 1))
    ELSE s

\* path.basename (POSIX): the last component, trailing separators dropped.
basename(p) ==
  LET s == stripTrailingSlashes(p)
      k == lastIndexOf(s, "/")
  IN  IF s = <<"/">> THEN <<>> ELSE SubSeq(s, k + 1, Len(s))

\* path.extname: from the last "." of the last component to its end; empty
\* when there is no "." or the only "." starts the component.
extname(p) ==
  LET b == basename(p)
      k == lastIndexOf(b, ".")
  IN  IF k <= 1 \/ b = <<".", ".">> THEN <<>> ELSE SubSeq(b, k, Len(b))

IMAGE_EXTS ==
  { <<".", "j", "p", "g">>, <<".", "j", "p", "e", "g">>, <<".", "p", "n", "g">>,
    <<".", "g", "i", "f">>, <<".", "w", "e", "b", "p">>, <<".", "b", "m", "p">>,
    <<".", "t", "i", "f">>, <<".", "t", "i", "f", "f">> }

\* The leaf-name test without its ".." clause.
isSafeLeafNameNoDotDot(name) ==
  /\ IsString(name)
  /\ Len(name) > 0
  /\ name = basename(name)
  /\ ~includes(name, <<"/">>)
  /\ ~includes(name, <<"\\">>)

isSafeLeafName(name) ==
  /\ IsString(name)
  /\ Len(name) > 0
  /\ name = basename(name)
  /\ ~includes(name, <<"/">>)
  /\ ~includes(name, <<"\\">>)
  /\ ~includes(name, <<".", ".">>)

isBucketName(name) ==
  /\ IsString(name)
  /\ Len(name) > 0
  /\ \A i \in DOMAIN name : name[i] \in Digits

isImageFileName(name) == toLowerCase(extname(name)) \in IMAGE_EXTS

\* Number(name) of a digit string.
RECURSIVE Number(_)
Number(s) ==
  IF Len(s) = 0 THEN 0
  ELSE 10 * Number(SubSeq(s, 1, Len(s) - 1)) + DigitVal[s[Len(s)]]

\* String(n) of a positive integer: its decimal digits, no leading zero.
RECURSIVE String(_)
String(n) ==
  IF n < 10 THEN <<ValDigit[n + 1]>>
  ELSE String(n \div 10) \o <<ValDigit[(n % 10) + 1]>>

\* ----------------------------------------------------------- filesystem
File(size, content) == [kind |-> "file", size |-> size, content |-> content]

Dir(ents) == [kind |-> "dir", ents |-> ents]

EmptyDir == Dir(<<>>)

isFile(e) == e.kind = "file"

isDirectory(e) == e.kind = "dir"

\* f with key k bound to v (added or replaced), and f without key k.
Put(f, k, v) == [x \in (DOMAIN f) \cup {k} |-> IF x = k THEN v ELSE f[x]]

Del(f, k) == [x \in (DOMAIN f) \ {k} |-> f[x]]


\* Sum of the sizes of the files among the entries ents named by names.
RECURSIVE SumSizes(_, _)
SumSizes(ents, names) ==
  IF names = {} THEN 0
  ELSE LET n == CHOOSE x \in names : TRUE
       IN  ents[n].size + SumSizes(ents, names \ {n})

\* pathExists(path.join(root, ...p)), p one or two names below the root.
pathExists(r, p) ==
  IF Len(p) = 1 THEN p[1] \in DOMAIN r
  ELSE /\ p[1] \in DOMAIN r
       /\ isDirectory(r[p[1]])
       /\ p[2] \in DOMAIN r[p[1]].ents

\* fs.readdir(path.join(root, bucketName)) succeeds.
canReaddir(r, bucketName) == bucketName \in DOMAIN r /\ isDirectory(r[bucketName])

\* getBucketStats adding up the bytes of the image files only.
getBucketStatsImagesOnly(r, bucketName) ==
  LET ents == r[bucketName].ents
      files == {n \in DOMAIN ents : isFile(ents[n]) /\ isImageFileName(n)}
  IN  [name |-> bucketName,
       photoCount |-> Cardinality(files),
       totalBytes |-> SumSizes(ents, files)]

getBucketStats(r, bucketName) ==
  LET ents == r[bucketName].ents
      files == {n \in DOMAIN ents : isFile(ents[n])}
  IN  [name |-> bucketName,
       photoCount |-> Cardinality({n \in files : isImageFileName(n)}),
       totalBytes |-> SumSizes(ents, files)]

\* The sequences of S in ascending order of Number; names of equal number
\* ("2" and "02") in either order, as readdir lists them in no fixed order.
RECURSIVE SortedByNumber(_)
\* a sorts before b as strings (Array.prototype.sort without a comparator).
RECURSIVE StringBefore(_, _)
StringBefore(a, b) ==
  IF Len(a) = 0 THEN TRUE
  ELSE IF Len(b) = 0 THEN FALSE
  ELSE IF a[1] # b[1] THEN DigitVal[a[1]] < DigitVal[b[1]]
  ELSE StringBefore(Tail(a), Tail(b))

\* The names sorted as strings.
RECURSIVE SortedByString(_)
SortedByString(S) ==
  IF S = {} THEN {<<>>}
  ELSE UNION { { <<m>> \o t : t \in SortedByString(S \ {m}) } :
               m \in {x \in S : \A y \in S : StringBefore(x, y)} }

SortedByNumber(S) ==
  IF S = {} THEN {<<>>}
  ELSE UNION { { <<m>> \o t : t \in SortedByNumber(S \ {m}) } :
               m \in {x \in S : \A y \in S : Number(x) <= Number(y)} }

listBuckets(r) ==
  SortedByNumber({n \in DOMAIN r : isDirectory(r[n]) /\ isBucketName(n)})

listRootImageNames(r) == {n \in DOMAIN r : isFile(r[n]) /\ isImageFileName(n)}

\* Math.max(...existing.map(Number)) of a non-empty list.
MaxNumber(existing) ==
  CHOOSE m \in {Number(existing[i]) : i \in DOMAIN existing} :
    \A i \in DOMAIN existing : Number(existing[i]) <= m

\* The next number without its increment, and with one too many.
nextBucketNumberNoIncrement(existing) ==
  IF Len(existing) = 0 THEN 1 ELSE MaxNumber(existing)

nextBucketNumberSkipping(existing) ==
  IF Len(existing) = 0 THEN 1 ELSE MaxNumber(existing) + 2

nextBucketNumber(existing) ==
  IF Len(existing) = 0 THEN 1 ELSE MaxNumber(existing) + 1

\* getState: the root images (name -> size) and every bucket's stats.
getState(r) ==
  [images |-> [n \in listRootImageNames(r) |-> r[n].size],
   buckets |-> {getBucketStats(r, b) :
                  b \in {n \in DOMAIN r : isDirectory(r[n]) /\ isBucketName(n)}}]

\* fs.rename(src, dest), src = root/imageName, dest = root/bucketName/imageName.
renamePossible(r, imageName, bucketName) ==
  /\ imageName \in DOMAIN r
  /\ canReaddir(r, bucketName)
  /\ imageName \in DOMAIN r[bucketName].ents =>
       /\ r[bucketName].ents[imageName].kind = r[imageName].kind
       /\ isDirectory(r[imageName]) => r[bucketName].ents[imageName].ents = <<>>

\* A rename that leaves the source in place.
renamedKeepingSource(r, imageName, bucketName) ==
  Put(r, bucketName, Dir(Put(r[bucketName].ents, imageName, r[imageName])))

renamed(r, imageName, bucketName) ==
  LET moved == Put(r[bucketName].ents, imageName, r[imageName])
  IN  Del(Put(r, bucketName, Dir(moved)), imageName)

\* fs.copyFile(src, dest): dest is created or overwritten with src's bytes.
copyPossible(r, imageName, bucketName) ==
  /\ imageName \in DOMAIN r
  /\ isFile(r[imageName])
  /\ canReaddir(r, bucketName)
  /\ imageName \in DOMAIN r[bucketName].ents => isFile(r[bucketName].ents[imageName])

copied(r, imageName, bucketName) ==
  Put(r, bucketName, Dir(Put(r[bucketName].ents, imageName, r[imageName])))

\* A copy that fails after opening dest removes dest again.
copyAborted(r, imageName, bucketName) ==
  Put(r, bucketName, Dir(Del(r[bucketName].ents, imageName)))

\* fs.unlink(src)
unlinkPossible(r, imageName) == imageName \in DOMAIN r /\ isFile(r[imageName])

unlinked(r, imageName) == Del(r, imageName)

\* fs.mkdir succeeding on a folder that is already there (recursive: true).
mkdirRecursivePossible(r, name) == name \notin DOMAIN r \/ isDirectory(r[name])

\* fs.mkdir(p, {recursive: false}) fails when any entry has the name.
mkdirPossible(r, name) == name \notin DOMAIN r


\* ------------------------------------------------------- the trees used
A_JPG == <<"a", ".", "j", "p", "g">>
B_PNG == <<"b", ".", "P", "N", "G">>
F_JPG == <<"f", ".", "j", "p", "g">>
N_TXT == <<"n", ".", "t", "x", "t">>
X_GIF == <<"x", ".", "g", "i", "f">>
ONE == <<"1">>
TWO == <<"2">>
THREE == <<"3">>
ZERO_TWO == <<"0", "2">>

\* Loose files of the root: a.jpg and b.PNG, each absent or of some size.
\* File names the root may hold that no request may name.
A_DOTDOT_JPG == <<"a", ".", ".", "j", "p", "g">>

A_BACKSLASH_JPG == <<"a", "\\", "b", ".", "j", "p", "g">>

InitImages ==
  { [n \in S |-> File(sz[n], <<"root", n>>)] :
      S \in SUBSET {A_JPG, B_PNG}, sz \in [{A_JPG, B_PNG} -> 1..MaxSize] }

\* The rest of the root: bucket folders (within both caps), a file with a
\* digit name, a folder with an image name.
InitFolders ==
  { <<>>,
    (ONE :> EmptyDir),
    (ONE :> Dir(A_JPG :> File(1, <<"bucket", A_JPG>>))) @@ (X_GIF :> EmptyDir),
    (ONE :> Dir(N_TXT :> File(MAX_BUCKET_BYTES - 1, <<"bucket", N_TXT>>)))
      @@ (THREE :> File(1, <<"root", THREE>>)),
    (ONE :> Dir((F_JPG :> File(1, <<"bucket", F_JPG>>)) @@ (N_TXT :> File(1, <<"bucket", N_TXT>>))))
      @@ (ZERO_TWO :> EmptyDir),
    (ONE :> EmptyDir) @@ (A_DOTDOT_JPG :> File(1, <<"root", A_DOTDOT_JPG>>))
      @@ (A_BACKSLASH_JPG :> File(1, <<"root", A_BACKSLASH_JPG>>)) }

\* What a client may send as imageName and bucketName.
ReqImageNames ==
  { A_JPG, B_PNG, X_GIF, N_TXT, Undefined,
    <<".", ".", "/", "a", ".", "j", "p", "g">>, A_DOTDOT_JPG, A_BACKSLASH_JPG }

ReqBucketNames == { ONE, TWO, ZERO_TWO, <<"x">>, <<"1", "x">>, Undefined }

\* ---------------------------------------------------------------- state
VARIABLES
  root,    \* the entries of IMAGE_ROOT
  pc,      \* per request slot: the filesystem call its handler awaits
  req,     \* per request slot: the request being handled
  loc,     \* per request slot: the handler's locals
  resp,    \* per request slot: the response sent
  pre,     \* per request slot: the root as it was when the request arrived
  moved,   \* <<imageName, bucketName>> of every move answered with success
  log,     \* bucket folders created by the server and deleted out of band
  root0,   \* the entries of IMAGE_ROOT when the server started
  imageRoot, \* what process.env.IMAGE_ROOT names: "unset", "missing", "file", "dir"
  client   \* the browser client: its state snapshot and the image being dragged

vars == <<root, pc, req, loc, resp, pre, moved, log, root0, imageRoot, client>>

NoName == <<>>

NoStats == [name |-> NoName, photoCount |-> 0, totalBytes |-> 0]

NoReq == [op |-> "none", imageName |-> NoName, bucketName |-> NoName]

\* calls: the filesystem calls the handler has made, each with its outcome.
\* during: the slots whose handlers were running when this request arrived.
NoLoc ==
  [srcSize |-> 0, name |-> NoName, path |-> "none", again |-> FALSE,
   calls |-> <<>>, images |-> <<>>, bucketNames |-> <<>>, during |-> {}]

\* The body of GET /api/state: images and buckets, in the order sent.
NoState == [images |-> <<>>, buckets |-> <<>>]

\* file: the content res.sendFile sends.
NoResp ==
  [status |-> 0, error |-> "none", bucket |-> NoStats, removed |-> NoName,
   state |-> NoState, file |-> <<>>]

Error(status, code) == [NoResp EXCEPT !.status = status, !.error = code]

\* res.json(body): status 200.
Ok(bucket, removed, state) ==
  [NoResp EXCEPT !.status = 200, !.bucket = bucket, !.removed = removed,
                 !.state = state]

\* The last drop on a bucket card: the bucket and image, whether a move
\* request was sent, the snapshot the client held and the tree on disk then.
NoDrop ==
  [bucket |-> NoName, image |-> NoName, issued |-> FALSE, seen |-> NoState, tree |-> <<>>]

\* App's state: state (the last GET /api/state body), draggedImage (name and
\* sizeBytes); phase: which fetch of the client is in flight, if any.
NoClient ==
  [state |-> NoState, loaded |-> FALSE, dragged |-> NoName, draggedSize |-> 0,
   phase |-> "start", drop |-> NoDrop]

Init ==
  /\ root \in { i @@ f : i \in InitImages, f \in InitFolders }
  /\ pc = [p \in Procs |-> "idle"]
  /\ req = [p \in Procs |-> NoReq]
  /\ loc = [p \in Procs |-> NoLoc]
  /\ resp = [p \in Procs |-> NoResp]
  /\ pre = [p \in Procs |-> <<>>]
  /\ moved = {}
  /\ log = <<>>
  /\ root0 = root
  /\ imageRoot = "dir"
  /\ client = NoClient

\* No request is being handled.
Quiet == \A p \in Procs : pc[p] = "idle"

\* res.status(..).json(..) / res.json(..): the handler ends.
Respond(p, r) ==
  /\ pc' = [pc EXCEPT ![p] = "done"]
  /\ resp' = [resp EXCEPT ![p] = r]

Goto(p, label) ==
  /\ pc' = [pc EXCEPT ![p] = label]
  /\ UNCHANGED resp

\* The client has read the response; the slot is free again.
Receive(p) ==
  /\ pc[p] = "done"
  /\ pc' = [pc EXCEPT ![p] = "idle"]
  /\ req' = [req EXCEPT ![p] = NoReq]
  /\ loc' = [loc EXCEPT ![p] = NoLoc]
  /\ resp' = [resp EXCEPT ![p] = NoResp]
  /\ pre' = [pre EXCEPT ![p] = <<>>]
  /\ UNCHANGED <<root, moved, log, root0, imageRoot, client>>

\* ---------------------------------------------------- POST /api/buckets
\* The handler of slot p has made filesystem call c (<<call, outcome>>).
Called(p, c) == [loc EXCEPT ![p].calls = Append(@, c)]

\* index.js:169-170
PostBuckets(p) ==
  /\ pc[p] = "idle"
  /\ Cardinality({n \in DOMAIN root : isDirectory(root[n]) /\ isBucketName(n)}) < MaxBuckets
  /\ Len(log) < MaxLog
  /\ req' = [req EXCEPT ![p] = [NoReq EXCEPT !.op = "buckets"]]
  /\ pre' = [pre EXCEPT ![p] = root]
  /\ loc' = [loc EXCEPT ![p].during = {q \in Procs \ {p} : pc[q] \notin {"idle", "done"}}]
  /\ IF imageRoot = "unset"
       THEN Respond(p, Error(400, "IMAGE_ROOT_NOT_SET"))
       ELSE Goto(p, "listBuckets")
  /\ UNCHANGED <<root, moved, log, root0, imageRoot, client>>

\* index.js:173-176, and the catch at 180-181 when readdir throws
BucketsList(p) ==
  /\ pc[p] = "listBuckets"
  /\ IF imageRoot = "dir"
       THEN /\ \E existing \in listBuckets(root) :
                 loc' = [loc EXCEPT ![p].name = String(nextBucketNumber(existing)),
                                    ![p].calls = Append(@, <<"readdir", "ok">>)]
            /\ Goto(p, "mkdir")
       ELSE /\ loc' = Called(p, <<"readdir", "ENOENT">>)
            /\ Respond(p, Error(500, "CREATE_BUCKET_FAILED"))
  /\ UNCHANGED <<root, req, pre, moved, log, root0, imageRoot, client>>

\* index.js:178, and the catch at 180-181
BucketsMkdir(p) ==
  /\ pc[p] = "mkdir"
  /\ IF mkdirPossible(root, loc[p].name)
       THEN /\ root' = IF loc[p].name \in DOMAIN root
                         THEN root ELSE Put(root, loc[p].name, EmptyDir)
            /\ loc' = Called(p, <<"mkdir", "ok">>)
            /\ Goto(p, "newStats")
       ELSE /\ loc' = Called(p, <<"mkdir", "EEXIST">>)
            /\ Respond(p, Error(500, "CREATE_BUCKET_FAILED"))
            /\ UNCHANGED root
  /\ UNCHANGED <<req, pre, moved, log, root0, imageRoot, client>>

\* index.js:179, and the catch at 180-181
BucketsRespond(p) ==
  /\ pc[p] = "newStats"
  /\ IF canReaddir(root, loc[p].name)
       THEN /\ loc' = Called(p, <<"getBucketStats", "ok">>)
            /\ Respond(p, Ok(getBucketStats(root, loc[p].name), NoName, NoState))
            /\ log' = Append(log, <<"created", loc[p].name>>)
       ELSE /\ loc' = Called(p, <<"getBucketStats", "ENOENT">>)
            /\ Respond(p, Error(500, "CREATE_BUCKET_FAILED"))
            /\ UNCHANGED log
  /\ UNCHANGED <<root, req, pre, moved, root0, imageRoot, client>>


\* ------------------------------------------------------- POST /api/move
\* index.js:206-221: the names are validated before any filesystem call.
PostMove(p, imageName, bucketName) ==
  /\ pc[p] = "idle"
  /\ req' = [req EXCEPT ![p] = [op |-> "move", imageName |-> imageName, bucketName |-> bucketName]]
  /\ pre' = [pre EXCEPT ![p] = root]
  /\ loc' = [loc EXCEPT ![p].again = <<imageName, bucketName>> \in moved]
  /\ IF imageRoot = "unset"
       THEN Respond(p, Error(400, "IMAGE_ROOT_NOT_SET"))
     ELSE IF ~isSafeLeafName(imageName) \/ ~isImageFileName(imageName)
       THEN Respond(p, Error(400, "INVALID_IMAGE_NAME"))
     ELSE IF ~isBucketName(bucketName)
       THEN Respond(p, Error(400, "INVALID_BUCKET_NAME"))
     ELSE Goto(p, "accessBucket")
  /\ UNCHANGED <<root, moved, log, root0, imageRoot, client>>

\* index.js:224-226
MoveAccessBucket(p) ==
  /\ pc[p] = "accessBucket"
  /\ IF ~pathExists(root, <<req[p].bucketName>>)
       THEN /\ loc' = Called(p, <<"access bucket", "ENOENT">>)
            /\ Respond(p, Error(404, "BUCKET_NOT_FOUND"))
       ELSE /\ loc' = Called(p, <<"access bucket", "ok">>)
            /\ Goto(p, "accessDest")
  /\ UNCHANGED <<root, req, pre, moved, log, root0, imageRoot, client>>

\* The handler without its destination check.
MoveAccessDestUnchecked(p) ==
  /\ pc[p] = "accessDest"
  /\ loc' = Called(p, <<"access dest", "ENOENT">>)
  /\ Goto(p, "stat")
  /\ UNCHANGED <<root, req, pre, moved, log, root0, imageRoot, client>>

\* index.js:227-229
MoveAccessDest(p) ==
  /\ pc[p] = "accessDest"
  /\ IF pathExists(root, <<req[p].bucketName, req[p].imageName>>)
       THEN /\ loc' = Called(p, <<"access dest", "ok">>)
            /\ Respond(p, Error(409, "DEST_ALREADY_EXISTS"))
       ELSE /\ loc' = Called(p, <<"access dest", "ENOENT">>)
            /\ Goto(p, "stat")
  /\ UNCHANGED <<root, req, pre, moved, log, root0, imageRoot, client>>

\* index.js:231-233: fs.stat of a missing path throws, which the catch at
\* 254-256 answers with MOVE_FAILED.
MoveStat(p) ==
  /\ pc[p] = "stat"
  /\ LET src == req[p].imageName
         bucketPath == req[p].bucketName
     IN  IF ~pathExists(root, <<src>>) \/ ~pathExists(root, <<bucketPath>>)
           THEN /\ loc' = Called(p, <<"stat", "ENOENT">>)
                /\ Respond(p, Error(500, "MOVE_FAILED"))
         ELSE IF ~isFile(root[src])
           THEN /\ loc' = Called(p, <<"stat", "src is no file">>)
                /\ Respond(p, Error(404, "IMAGE_NOT_FOUND"))
         ELSE IF ~isDirectory(root[bucketPath])
           THEN /\ loc' = Called(p, <<"stat", "bucket is no directory">>)
                /\ Respond(p, Error(404, "BUCKET_NOT_FOUND"))
         ELSE /\ loc' = [loc EXCEPT ![p].srcSize = root[src].size,
                                    ![p].calls = Append(@, <<"stat", "ok">>)]
              /\ Goto(p, "getBucketStats")
  /\ UNCHANGED <<root, req, pre, moved, log, root0, imageRoot, client>>

\* The cap tests letting one more photo, one more byte, through.
overPhotoCapOffByOne(newPhotoCount) == newPhotoCount > MAX_BUCKET_PHOTOS + 1

overByteCapOffByOne(newTotalBytes) == newTotalBytes > MAX_BUCKET_BYTES + 1

\* index.js:239: the photo-cap test.
overPhotoCap(newPhotoCount) == newPhotoCount > MAX_BUCKET_PHOTOS

\* index.js:245: the byte-cap test.
overByteCap(newTotalBytes) == newTotalBytes > MAX_BUCKET_BYTES

\* The tree the capacity check of slot p measures, were it the one the
\* request arrived on.
treeAtArrival(p) == pre[p]

\* index.js:235: getBucketStats(root, bucketName) reads the folder again.
treeMeasured(p) == root

\* index.js:235-250
MoveCapacity(p) ==
  /\ pc[p] = "getBucketStats"
  /\ IF ~canReaddir(treeMeasured(p), req[p].bucketName)
       THEN /\ loc' = Called(p, <<"getBucketStats", "ENOENT">>)
            /\ Respond(p, Error(500, "MOVE_FAILED"))
       ELSE LET stats == getBucketStats(treeMeasured(p), req[p].bucketName)
                newPhotoCount == stats.photoCount + 1
                newTotalBytes == stats.totalBytes + loc[p].srcSize
            IN  /\ loc' = Called(p, <<"getBucketStats", "ok">>)
                /\ IF overPhotoCap(newPhotoCount)
                     THEN Respond(p, Error(409, "BUCKET_FULL_PHOTOS"))
                   ELSE IF overByteCap(newTotalBytes)
                     THEN Respond(p, Error(409, "BUCKET_FULL_BYTES"))
                   ELSE Goto(p, "rename")
  /\ UNCHANGED <<root, req, pre, moved, log, root0, imageRoot, client>>

\* What the filesystem may answer to the rename, the copy and the unlink
\* of moveFileSafe besides success.
RenameErrors == {"EXDEV", "EIO"}

CopyErrors == {"EIO before dest is opened", "EIO after dest is opened"}

UnlinkErrors == {"EIO"}

\* moveFileSafe falling back to the copy on any error of the rename.
fallsBackAlways(code) == code # "ok"

\* index.js:133: err.code === 'EXDEV'
fallsBack(code) == code = "EXDEV"

\* index.js:130-139: fs.rename, and what its error leads to.
MoveRename(p) ==
  /\ pc[p] = "rename"
  /\ LET src == req[p].imageName
         bkt == req[p].bucketName
     IN  \E io \in {"ok"} \cup RenameErrors :
           LET code == IF renamePossible(root, src, bkt) THEN io ELSE "ENOENT"
           IN  IF code = "ok"
                 THEN /\ root' = renamed(root, src, bkt)
                      /\ loc' = [loc EXCEPT ![p].path = "rename",
                                            ![p].calls = Append(@, <<"rename", code>>)]
                      /\ Goto(p, "moveStats")
               ELSE IF fallsBack(code)
                 THEN /\ loc' = [loc EXCEPT ![p].path = "copy",
                                            ![p].calls = Append(@, <<"rename", code>>)]
                      /\ Goto(p, "copyFile")
                      /\ UNCHANGED root
               ELSE /\ loc' = Called(p, <<"rename", code>>)
                    /\ Respond(p, Error(500, "MOVE_FAILED"))
                    /\ UNCHANGED root
  /\ UNCHANGED <<req, pre, moved, log, root0, imageRoot, client>>

\* index.js:134
MoveCopy(p) ==
  /\ pc[p] = "copyFile"
  /\ LET src == req[p].imageName
         bkt == req[p].bucketName
     IN  \E io \in {"ok"} \cup CopyErrors :
           LET code == IF copyPossible(root, src, bkt) THEN io ELSE "ENOENT"
           IN  /\ loc' = Called(p, <<"copyFile", code>>)
               /\ IF code = "ok"
                    THEN /\ root' = copied(root, src, bkt)
                         /\ Goto(p, "unlink")
                  ELSE IF code = "EIO after dest is opened"
                    THEN /\ root' = copyAborted(root, src, bkt)
                         /\ Respond(p, Error(500, "MOVE_FAILED"))
                  ELSE /\ Respond(p, Error(500, "MOVE_FAILED"))
                       /\ UNCHANGED root
  /\ UNCHANGED <<req, pre, moved, log, root0, imageRoot, client>>

\* index.js:135-136
MoveUnlink(p) ==
  /\ pc[p] = "unlink"
  /\ \E io \in {"ok"} \cup UnlinkErrors :
       LET code == IF unlinkPossible(root, req[p].imageName) THEN io ELSE "ENOENT"
       IN  /\ loc' = Called(p, <<"unlink", code>>)
           /\ IF code = "ok"
                THEN /\ root' = unlinked(root, req[p].imageName)
                     /\ Goto(p, "moveStats")
                ELSE /\ Respond(p, Error(500, "MOVE_FAILED"))
                     /\ UNCHANGED root
  /\ UNCHANGED <<req, pre, moved, log, root0, imageRoot, client>>

\* index.js:253, and the catch at 254-256
MoveRespond(p) ==
  /\ pc[p] = "moveStats"
  /\ IF canReaddir(root, req[p].bucketName)
       THEN /\ loc' = Called(p, <<"getBucketStats", "ok">>)
            /\ Respond(p, Ok(getBucketStats(root, req[p].bucketName), req[p].imageName, NoState))
            /\ moved' = moved \cup {<<req[p].imageName, req[p].bucketName>>}
       ELSE /\ loc' = Called(p, <<"getBucketStats", "ENOENT">>)
            /\ Respond(p, Error(500, "MOVE_FAILED"))
            /\ UNCHANGED moved
  /\ UNCHANGED <<root, req, pre, log, root0, imageRoot, client>>

\* ------------------------------------------------------- GET /api/image
\* String(req.query.name ?? '')
queryName(name) == IF name = Undefined THEN <<>> ELSE name

\* index.js:185-192
GetImage(p, name) ==
  /\ pc[p] = "idle"
  /\ req' = [req EXCEPT ![p] = [NoReq EXCEPT !.op = "image", !.imageName = name]]
  /\ pre' = [pre EXCEPT ![p] = root]
  /\ IF imageRoot = "unset"
       THEN Respond(p, Error(400, "IMAGE_ROOT_NOT_SET"))
     ELSE IF ~isSafeLeafName(queryName(name)) \/ ~isImageFileName(queryName(name))
       THEN Respond(p, Error(400, "INVALID_IMAGE_NAME"))
     ELSE Goto(p, "imageStat")
  /\ UNCHANGED <<root, loc, moved, log, root0, imageRoot, client>>

\* index.js:194-202: res.status(404).end() has no body.
ImageStat(p) ==
  /\ pc[p] = "imageStat"
  /\ LET name == queryName(req[p].imageName)
     IN  IF ~pathExists(root, <<name>>)
           THEN /\ loc' = Called(p, <<"stat", "ENOENT">>)
                /\ Respond(p, Error(404, "none"))
         ELSE IF ~isFile(root[name])
           THEN /\ loc' = Called(p, <<"stat", "src is no file">>)
                /\ Respond(p, Error(404, "none"))
         ELSE /\ loc' = Called(p, <<"stat", "ok">>)
              /\ Respond(p, [NoResp EXCEPT !.status = 200, !.file = root[name].content])
  /\ UNCHANGED <<root, req, pre, moved, log, root0, imageRoot, client>>

\* ------------------------------------------------------- GET /api/state
\* The handler answering before it has looked at IMAGE_ROOT.
rootUnsetUnchecked == FALSE

\* index.js:149-150: !root
rootUnset == imageRoot = "unset"

\* index.js:148-155
GetState(p) ==
  /\ pc[p] = "idle"
  /\ req' = [req EXCEPT ![p] = [NoReq EXCEPT !.op = "state"]]
  /\ pre' = [pre EXCEPT ![p] = root]
  /\ IF rootUnset
       THEN Respond(p, Error(400, "IMAGE_ROOT_NOT_SET"))
       ELSE Goto(p, "statRoot")
  /\ UNCHANGED <<root, loc, moved, log, root0, imageRoot, client>>

\* index.js:157-158, and the catch at 160-165
StateStat(p) ==
  /\ pc[p] = "statRoot"
  /\ IF imageRoot = "dir"
       THEN /\ loc' = Called(p, <<"stat", "ok">>)
            /\ Goto(p, "readdirRoot")
     ELSE IF imageRoot = "file"
       THEN /\ loc' = Called(p, <<"stat", "root is no directory">>)
            /\ Respond(p, Error(500, "STATE_FAILED"))
     ELSE /\ loc' = Called(p, <<"stat", "ENOENT">>)
          /\ Respond(p, Error(500, "STATE_FAILED"))
  /\ UNCHANGED <<root, req, pre, moved, log, root0, imageRoot, client>>

\* index.js:112-115: listRootImages and listBuckets read the root.
StateList(p) ==
  /\ pc[p] = "readdirRoot"
  /\ \E bucketNames \in listBuckets(root) :
       loc' = [loc EXCEPT ![p].images = [n \in listRootImageNames(root) |-> root[n].size],
                          ![p].bucketNames = bucketNames,
                          ![p].calls = Append(@, <<"readdir", "ok">>)]
  /\ Goto(p, "bucketStats")
  /\ UNCHANGED <<root, req, pre, moved, log, root0, imageRoot, client>>

\* index.js:116-125 and 159, and the catch at 160-165
StateRespond(p) ==
  /\ pc[p] = "bucketStats"
  /\ LET bucketNames == loc[p].bucketNames
     IN  IF \A i \in DOMAIN bucketNames : canReaddir(root, bucketNames[i])
           THEN /\ loc' = Called(p, <<"getBucketStats", "ok">>)
                /\ Respond(p, Ok(NoStats, NoName,
                     [images |-> loc[p].images,
                      buckets |-> [i \in DOMAIN bucketNames |->
                                     getBucketStats(root, bucketNames[i])]]))
           ELSE /\ loc' = Called(p, <<"getBucketStats", "ENOENT">>)
                /\ Respond(p, Error(500, "STATE_FAILED"))
  /\ UNCHANGED <<root, req, pre, moved, log, root0, imageRoot, client>>

\* ------------------------------------------------------------ out of band
\* The user deletes a bucket folder with a file manager while the server runs.
DeleteBucketOutOfBand(b) ==
  /\ b \in DOMAIN root
  /\ isDirectory(root[b])
  /\ isBucketName(b)
  /\ Len(log) < MaxLog
  /\ root' = Del(root, b)
  /\ log' = Append(log, <<"deleted", b>>)
  /\ UNCHANGED <<pc, req, loc, resp, pre, moved, root0, imageRoot, client>>

\* ------------------------------------------------------- specifications
\* The handlers' steps after their first.
Step(p) ==
  \/ BucketsList(p)
  \/ BucketsMkdir(p)
  \/ BucketsRespond(p)
  \/ MoveAccessBucket(p)
  \/ MoveAccessDest(p)
  \/ MoveStat(p)
  \/ MoveCapacity(p)
  \/ MoveRename(p)
  \/ MoveCopy(p)
  \/ MoveUnlink(p)
  \/ MoveRespond(p)
  \/ ImageStat(p)
  \/ StateStat(p)
  \/ StateList(p)
  \/ StateRespond(p)
  \/ Receive(p)

\* A request arrives only when no other is being handled.
SeqPostBuckets(p) == Quiet /\ PostBuckets(p)

SeqPostMove(p) ==
  Quiet /\ \E i \in ReqImageNames, b \in ReqBucketNames : PostMove(p, i, b)

SeqGetImage(p) == Quiet /\ \E n \in ReqImageNames : GetImage(p, n)

SeqGetState(p) == Quiet /\ GetState(p)

Next ==
  \E p \in Procs :
    SeqPostBuckets(p) \/ SeqPostMove(p) \/ SeqGetImage(p) \/ SeqGetState(p) \/ Step(p)

Spec == Init /\ [][Next]_vars

\* As Spec, started on a root without bucket folders, and with bucket
\* folders deleted out of band between requests.
SeqDeleteBucket == Quiet /\ \E b \in DOMAIN root : DeleteBucketOutOfBand(b)

NextEnv == Next \/ SeqDeleteBucket

InitEnv == Init /\ \A n \in DOMAIN root : ~isBucketName(n)

SpecEnv == InitEnv /\ [][NextEnv]_vars


\* The read-only routes, on any configuration of IMAGE_ROOT and any set of
\* folders in it.
TEN == <<"1", "0">>

NINE == <<"9">>

ONE_X == <<"1", "x">>

ReadFolderNames == {ONE, TWO, ZERO_TWO, NINE, TEN, ONE_X}

ReadTrees ==
  { [n \in S |-> IF n = ONE THEN Dir(F_JPG :> File(1, <<"bucket", F_JPG>>)) ELSE EmptyDir]
      @@ f :
      S \in SUBSET ReadFolderNames,
      f \in { <<>>,
              (THREE :> File(1, <<"root", THREE>>))
                @@ (A_JPG :> File(MaxSize, <<"root", A_JPG>>)) } }

InitRead ==
  /\ imageRoot \in {"unset", "missing", "file", "dir"}
  /\ root \in IF imageRoot = "dir" THEN ReadTrees ELSE {<<>>}
  /\ pc = [p \in Procs |-> "idle"]
  /\ req = [p \in Procs |-> NoReq]
  /\ loc = [p \in Procs |-> NoLoc]
  /\ resp = [p \in Procs |-> NoResp]
  /\ pre = [p \in Procs |-> <<>>]
  /\ moved = {}
  /\ log = <<>>
  /\ root0 = root
  /\ client = NoClient

NextRead ==
  \E p \in Procs :
    \/ SeqGetState(p)
    \/ SeqGetImage(p)
    \/ StateStat(p)
    \/ StateList(p)
    \/ StateRespond(p)
    \/ ImageStat(p)
    \/ Receive(p)

SpecRead == InitRead /\ [][NextRead]_vars


\* Requests that overlap: each slot handles one request, and the slots'
\* steps interleave at every awaited filesystem call.
OverlapBuckets ==
  { EmptyDir,
    Dir(F_JPG :> File(1, <<"bucket", F_JPG>>)),
    Dir((F_JPG :> File(1, <<"bucket", F_JPG>>)) @@ (X_GIF :> File(1, <<"bucket", X_GIF>>))),
    Dir(N_TXT :> File(MAX_BUCKET_BYTES - 1, <<"bucket", N_TXT>>)),
    Dir(A_JPG :> File(1, <<"bucket", A_JPG>>)) }

OverlapTrees ==
  { (A_JPG :> File(sz, <<"root", A_JPG>>)) @@ (B_PNG :> File(1, <<"root", B_PNG>>))
      @@ (ONE :> one) @@ rest :
      sz \in 1..MaxSize,
      one \in OverlapBuckets,
      rest \in { <<>>,
                 (TWO :> EmptyDir),
                 (TWO :> EmptyDir) @@ (THREE :> File(1, <<"root", THREE>>)) } }

InitOverlap ==
  /\ root \in OverlapTrees
  /\ pc = [p \in Procs |-> "idle"]
  /\ req = [p \in Procs |-> NoReq]
  /\ loc = [p \in Procs |-> NoLoc]
  /\ resp = [p \in Procs |-> NoResp]
  /\ pre = [p \in Procs |-> <<>>]
  /\ moved = {}
  /\ log = <<>>
  /\ root0 = root
  /\ imageRoot = "dir"
  /\ client = NoClient

OverlapPostMove(p) == \E i \in {A_JPG, B_PNG}, b \in {ONE, TWO} : PostMove(p, i, b)

NextOverlap ==
  \E p \in Procs :
    \/ OverlapPostMove(p)
    \/ PostBuckets(p)
    \/ BucketsList(p)
    \/ BucketsMkdir(p)
    \/ BucketsRespond(p)
    \/ MoveAccessBucket(p)
    \/ MoveAccessDest(p)
    \/ MoveStat(p)
    \/ MoveCapacity(p)
    \/ MoveRename(p)
    \/ MoveCopy(p)
    \/ MoveUnlink(p)
    \/ MoveRespond(p)

SpecOverlap == InitOverlap /\ [][NextOverlap]_vars


\* ------------------------------------------------------------ the client
\* The client's requests are handled in slot 1; slot 2 handles the one move
\* of another browser tab.
ClientSlot == 1

OtherSlot == 2

\* The drop gate refusing a bucket that would be exactly at a cap.
wouldExceedAtCap(bucket, size) ==
  \/ bucket.photoCount + 1 >= MAX_BUCKET_PHOTOS
  \/ bucket.totalBytes + size >= MAX_BUCKET_BYTES

\* vite.config.js:27-32, with state.limits as the server sends them
\* (index.js:122).
wouldExceed(bucket, size) ==
  \/ bucket.photoCount + 1 > MAX_BUCKET_PHOTOS
  \/ bucket.totalBytes + size > MAX_BUCKET_BYTES

\* vite.config.js:34
canAccept(bucket) == client.dragged # NoName /\ ~wouldExceed(bucket, client.draggedSize)

\* vite.config.js:135-137: dropToBucket tests the caps again.
exceedsCaps(bucket, size) ==
  \/ bucket.photoCount + 1 > MAX_BUCKET_PHOTOS
  \/ bucket.totalBytes + size > MAX_BUCKET_BYTES

\* The client has read the response of its slot.
Consume ==
  /\ pc' = [pc EXCEPT ![ClientSlot] = "idle"]
  /\ req' = [req EXCEPT ![ClientSlot] = NoReq]
  /\ loc' = [loc EXCEPT ![ClientSlot] = NoLoc]
  /\ resp' = [resp EXCEPT ![ClientSlot] = NoResp]
  /\ pre' = [pre EXCEPT ![ClientSlot] = <<>>]

\* vite.config.js:112-114: useEffect(() => { refresh(); }, [])
ClientMount ==
  /\ client.phase = "start"
  /\ client' = [client EXCEPT !.phase = "refreshing"]
  /\ UNCHANGED <<root, pc, req, loc, resp, pre, moved, log, root0, imageRoot>>

\* The GET /api/state of refresh() reaches the server.
NetGetState == client.phase = "refreshing" /\ GetState(ClientSlot)

\* vite.config.js:99-110: refresh() after apiGetState has answered.
ClientSetState ==
  /\ client.phase = "refreshing"
  /\ pc[ClientSlot] = "done"
  /\ client' = [client EXCEPT
                  !.state = IF resp[ClientSlot].status = 200
                              THEN resp[ClientSlot].state ELSE @,
                  !.loaded = @ \/ resp[ClientSlot].status = 200,
                  !.phase = "ready",
                  !.drop = NoDrop]
  /\ Consume
  /\ UNCHANGED <<root, moved, log, root0, imageRoot>>

\* vite.config.js:214: onDragStart={(im) => setDraggedImage(im)}
ClientDragStart(img) ==
  /\ client.phase = "ready"
  /\ client.loaded
  /\ img \in DOMAIN client.state.images
  /\ client' = [client EXCEPT !.dragged = img, !.draggedSize = client.state.images[img],
                              !.phase = "dragging"]
  /\ UNCHANGED <<root, pc, req, loc, resp, pre, moved, log, root0, imageRoot>>

\* vite.config.js:215: onDragEnd={() => setDraggedImage(null)}
ClientDragEnd ==
  /\ client.phase \in {"dragging", "moving"}
  /\ client.dragged # NoName
  /\ client' = [client EXCEPT !.dragged = NoName, !.draggedSize = 0,
                              !.phase = IF @ = "dragging" THEN "ready" ELSE @]
  /\ UNCHANGED <<root, pc, req, loc, resp, pre, moved, log, root0, imageRoot>>

\* vite.config.js:42-46 and 130-141: onDrop on the card of the i-th bucket,
\* and dropToBucket up to the fetch of apiMoveImage.
ClientDrop(i) ==
  /\ client.phase = "dragging"
  /\ i \in DOMAIN client.state.buckets
  /\ LET bucket == client.state.buckets[i]
         issue == /\ canAccept(bucket)
                  /\ client.dragged # NoName
                  /\ ~exceedsCaps(bucket, client.draggedSize)
     IN  client' = [client EXCEPT
                      !.phase = IF issue THEN "moving" ELSE @,
                      !.drop = [bucket |-> bucket.name, image |-> client.dragged,
                                issued |-> issue, seen |-> client.state, tree |-> root]]
  /\ UNCHANGED <<root, pc, req, loc, resp, pre, moved, log, root0, imageRoot>>

\* The POST /api/move of apiMoveImage reaches the server.
NetPostMove ==
  /\ client.phase = "moving"
  /\ PostMove(ClientSlot, client.drop.image, client.drop.bucket)

\* vite.config.js:142-150: apiMoveImage has resolved or thrown; either way
\* setDraggedImage(null) and refresh().
ClientMoveAnswered ==
  /\ client.phase = "moving"
  /\ pc[ClientSlot] = "done"
  /\ client' = [client EXCEPT !.dragged = NoName, !.draggedSize = 0, !.phase = "refreshing"]
  /\ Consume
  /\ UNCHANGED <<root, moved, log, root0, imageRoot>>

\* Another tab moves an image, once.
OtherPostMove ==
  \E i \in {A_JPG, B_PNG} : PostMove(OtherSlot, i, ONE)

ClientTrees ==
  { (A_JPG :> File(sz, <<"root", A_JPG>>)) @@ (B_PNG :> File(1, <<"root", B_PNG>>))
      @@ (ONE :> one) :
      sz \in 1..MaxSize,
      one \in OverlapBuckets }

InitClient ==
  /\ root \in ClientTrees
  /\ pc = [p \in Procs |-> "idle"]
  /\ req = [p \in Procs |-> NoReq]
  /\ loc = [p \in Procs |-> NoLoc]
  /\ resp = [p \in Procs |-> NoResp]
  /\ pre = [p \in Procs |-> <<>>]
  /\ moved = {}
  /\ log = <<>>
  /\ root0 = root
  /\ imageRoot = "dir"
  /\ client = NoClient

\* The server's steps for both slots.
ServerStep(p) ==
  \/ MoveAccessBucket(p)
  \/ MoveAccessDest(p)
  \/ MoveStat(p)
  \/ MoveCapacity(p)
  \/ MoveRename(p)
  \/ MoveCopy(p)
  \/ MoveUnlink(p)
  \/ MoveRespond(p)
  \/ StateStat(p)
  \/ StateList(p)
  \/ StateRespond(p)

NextClient ==
  \/ ClientMount
  \/ NetGetState
  \/ ClientSetState
  \/ \E img \in {A_JPG, B_PNG} : ClientDragStart(img)
  \/ ClientDragEnd
  \/ \E i \in 1..MaxBuckets : ClientDrop(i)
  \/ NetPostMove
  \/ ClientMoveAnswered
  \/ OtherPostMove
  \/ \E p \in Procs : ServerStep(p)

SpecClient == InitClient /\ [][NextClient]_vars


\* ---------------------------------------------------------------- claims
BucketNamesOf(r) == {n \in DOMAIN r : isDirectory(r[n]) /\ isBucketName(n)}

\* What bucket b of tree r holds: its files, its photos, its bytes.
FilesIn(r, b) == {n \in DOMAIN r[b].ents : r[b].ents[n].kind = "file"}

PhotosIn(r, b) == Cardinality({n \in FilesIn(r, b) : isImageFileName(n)})

RECURSIVE BytesOf(_, _, _)
BytesOf(r, b, names) ==
  IF names = {} THEN 0
  ELSE LET n == CHOOSE x \in names : TRUE
       IN  r[b].ents[n].size + BytesOf(r, b, names \ {n})

BytesIn(r, b) == BytesOf(r, b, FilesIn(r, b))

\* Slot p holds the answer to a move request whose names passed validation.
MoveAnswered(p) ==
  /\ pc[p] = "done"
  /\ req[p].op = "move"
  /\ isSafeLeafName(req[p].imageName)
  /\ isImageFileName(req[p].imageName)
  /\ isBucketName(req[p].bucketName)

\* The request of slot p named a file of the root and a bucket folder.
NamedImageAndBucket(p) ==
  /\ MoveAnswered(p)
  /\ req[p].imageName \in DOMAIN pre[p]
  /\ isFile(pre[p][req[p].imageName])
  /\ req[p].bucketName \in BucketNamesOf(pre[p])

\* C1: with requests that do not overlap, starting with every bucket within
\* both caps, every bucket always holds at most MAX_BUCKET_PHOTOS photos and
\* at most MAX_BUCKET_BYTES bytes.
C1_BucketsWithinCaps ==
  \A b \in BucketNamesOf(root) :
    /\ PhotosIn(root, b) <= MAX_BUCKET_PHOTOS
    /\ BytesIn(root, b) <= MAX_BUCKET_BYTES

\* A move has succeeded into a bucket that is now at the byte cap, and a
\* bucket created by the server exists.
C1_Witness ==
  \E p \in Procs :
    /\ MoveAnswered(p)
    /\ resp[p].status = 200
    /\ resp[p].bucket.totalBytes = MAX_BUCKET_BYTES
    /\ Len(log) > 0

\* C2: a move whose destination bucket already holds an entry of the image's
\* name is answered 409 DEST_ALREADY_EXISTS, and the root file and the
\* bucket's file are as they were (nothing in the tree has changed).
C2_ConflictRefused ==
  \A p \in Procs :
    (MoveAnswered(p) /\ pathExists(pre[p], <<req[p].bucketName, req[p].imageName>>))
      => /\ resp[p] = Error(409, "DEST_ALREADY_EXISTS")
         /\ root = pre[p]

\* A conflicting move of a root file whose bytes differ from the bucket's.
C2_Witness ==
  \E p \in Procs :
    /\ NamedImageAndBucket(p)
    /\ pathExists(pre[p], <<req[p].bucketName, req[p].imageName>>)
    /\ root[req[p].imageName] # root[req[p].bucketName].ents[req[p].imageName]

\* The request of slot p would take its bucket past the photo cap.
WouldExceedPhotos(p) ==
  PhotosIn(pre[p], req[p].bucketName) + 1 > MAX_BUCKET_PHOTOS

\* The request of slot p would take its bucket past the byte cap.
WouldExceedBytes(p) ==
  BytesIn(pre[p], req[p].bucketName) + pre[p][req[p].imageName].size > MAX_BUCKET_BYTES

DestAbsent(p) == ~pathExists(pre[p], <<req[p].bucketName, req[p].imageName>>)

RefusedWith(p, code) ==
  /\ resp[p] = Error(409, code)
  /\ root = pre[p]

\* C3 as stated: every move of a root image into a bucket whose photo count
\* would pass the cap is answered BUCKET_FULL_PHOTOS, the file staying put.
C3_Original ==
  \A p \in Procs :
    (NamedImageAndBucket(p) /\ WouldExceedPhotos(p))
      => RefusedWith(p, "BUCKET_FULL_PHOTOS")

\* C3, amended: such a move is answered BUCKET_FULL_PHOTOS, the file staying
\* in the root, when the bucket holds no entry of the image's name (the
\* destination check comes first and answers DEST_ALREADY_EXISTS).
C3_PhotoCapRefused ==
  \A p \in Procs :
    (NamedImageAndBucket(p) /\ DestAbsent(p) /\ WouldExceedPhotos(p))
      => RefusedWith(p, "BUCKET_FULL_PHOTOS")

\* A move refused for the photo cap alone: its bytes would have fitted.
C3_Witness ==
  \E p \in Procs :
    /\ NamedImageAndBucket(p)
    /\ DestAbsent(p)
    /\ WouldExceedPhotos(p)
    /\ ~WouldExceedBytes(p)
    /\ resp[p].error = "BUCKET_FULL_PHOTOS"

\* C4 as stated: every move of a root image into a bucket whose byte total
\* would pass the cap is answered BUCKET_FULL_BYTES, the file staying put.
C4_Original ==
  \A p \in Procs :
    (NamedImageAndBucket(p) /\ WouldExceedBytes(p))
      => RefusedWith(p, "BUCKET_FULL_BYTES")

\* C4, amended: such a move is answered BUCKET_FULL_BYTES, the file staying
\* in the root, when the bucket holds no entry of the image's name and its
\* photo count would stay within the photo cap (both tests come first).
C4_ByteCapRefused ==
  \A p \in Procs :
    (NamedImageAndBucket(p) /\ DestAbsent(p) /\ ~WouldExceedPhotos(p) /\ WouldExceedBytes(p))
      => RefusedWith(p, "BUCKET_FULL_BYTES")

\* A move refused for the byte cap because of a non-image file's bytes.
C4_Witness ==
  \E p \in Procs :
    /\ NamedImageAndBucket(p)
    /\ DestAbsent(p)
    /\ ~WouldExceedPhotos(p)
    /\ WouldExceedBytes(p)
    /\ resp[p].error = "BUCKET_FULL_BYTES"
    /\ N_TXT \in DOMAIN root[req[p].bucketName].ents

\* C5: after a successful move that no request overlapped, the image is not
\* among the images of GET /api/state; the bucket's photoCount and totalBytes
\* are those before the move plus 1 and plus the image's size, in the move's
\* response and in the state read; every other entry of the root is as before.
C5_MoveEffect ==
  \A p \in Procs :
    (MoveAnswered(p) /\ resp[p].status = 200) =>
      LET img == req[p].imageName
          bkt == req[p].bucketName
          after == [name |-> bkt,
                    photoCount |-> PhotosIn(pre[p], bkt) + 1,
                    totalBytes |-> BytesIn(pre[p], bkt) + pre[p][img].size]
      IN  /\ img \notin DOMAIN getState(root).images
          /\ resp[p].bucket = after
          /\ resp[p].removed = img
          /\ after \in getState(root).buckets
          /\ DOMAIN root = (DOMAIN pre[p]) \ {img}
          /\ \A n \in (DOMAIN root) \ {bkt} : root[n] = pre[p][n]
          /\ \A n \in DOMAIN pre[p][bkt].ents : root[bkt].ents[n] = pre[p][bkt].ents[n]

\* A successful move into a bucket that held files, with another image and
\* another bucket beside them.
C5_Witness ==
  \E p \in Procs :
    /\ MoveAnswered(p)
    /\ resp[p].status = 200
    /\ DOMAIN pre[p][req[p].bucketName].ents # {}
    /\ listRootImageNames(root) # {}
    /\ Cardinality(BucketNamesOf(root)) > 1


\* Slot p holds the answer to a move request identical to one answered with
\* success before it arrived.
RepeatAnswered(p) ==
  /\ pc[p] = "done"
  /\ req[p].op = "move"
  /\ loc[p].again

\* C6 as stated: a move repeated after it succeeded is answered "image not
\* found".
C6_Original ==
  \A p \in Procs : RepeatAnswered(p) => resp[p] = Error(404, "IMAGE_NOT_FOUND")

\* C6, amended: a move repeated after it succeeded is answered 409
\* DEST_ALREADY_EXISTS, the moved file being in the bucket, and changes nothing.
C6_RepeatRefused ==
  \A p \in Procs : RepeatAnswered(p) => RefusedWith(p, "DEST_ALREADY_EXISTS")

\* A repeated move answered while its source is gone from the root.
C6_Witness ==
  \E p \in Procs :
    /\ RepeatAnswered(p)
    /\ resp[p].status # 0
    /\ req[p].imageName \notin DOMAIN root
    /\ pathExists(root, <<req[p].bucketName, req[p].imageName>>)

\* No image name is in the root and a bucket, or in two buckets, of tree r.
NoDuplicate(r) ==
  \A b \in BucketNamesOf(r) :
    \A n \in {x \in DOMAIN r[b].ents : isImageFileName(x)} :
      /\ n \notin DOMAIN r
      /\ \A c \in BucketNamesOf(r) \ {b} : n \notin DOMAIN r[c].ents

\* C7: if no image name was in two places when the server started, none is
\* in two places in any state, the states within a move included.
C7_NoDuplicateNames == NoDuplicate(root0) => NoDuplicate(root)

\* C8: when a move is answered with an error, the tree is what it was when
\* the request arrived.
C8_FailedMoveLeavesTree ==
  \A p \in Procs :
    (pc[p] = "done" /\ req[p].op = "move" /\ resp[p].status # 200) => root = pre[p]

\* C9: POST /api/buckets picks the decimal name of 1 + the largest bucket
\* number (1 with no bucket); if the root had an entry of that name it answers
\* 500 CREATE_BUCKET_FAILED and changes nothing, otherwise it creates the
\* folder, which was not there before, and reports it with 0 photos, 0 bytes.
C9_NextBucketName ==
  \A p \in Procs :
    (pc[p] = "done" /\ req[p].op = "buckets") =>
      LET B0 == BucketNamesOf(pre[p])
          nm == loc[p].name
      IN  /\ isBucketName(nm)
          /\ nm[1] # "0"
          /\ B0 = {} => Number(nm) = 1
          /\ B0 # {} => \E b \in B0 : /\ Number(nm) = Number(b) + 1
                                      /\ \A c \in B0 : Number(c) <= Number(b)
          /\ IF nm \in DOMAIN pre[p]
               THEN /\ resp[p] = Error(500, "CREATE_BUCKET_FAILED")
                    /\ root = pre[p]
               ELSE /\ resp[p].status = 200
                    /\ resp[p].bucket = [name |-> nm, photoCount |-> 0, totalBytes |-> 0]
                    /\ root = Put(pre[p], nm, EmptyDir)

\* A creation refused because a file has the next name, after one that
\* succeeded.
C9_Witness ==
  \E p \in Procs :
    /\ pc[p] = "done"
    /\ req[p].op = "buckets"
    /\ resp[p].status = 500
    /\ isFile(root[loc[p].name])
    /\ Len(log) > 0

\* The server started with no bucket folder, created two, and the second
\* was deleted out of band before it created a third.
CreatedCreatedDeletedCreated ==
  /\ BucketNamesOf(root0) = {}
  /\ Len(log) >= 4
  /\ log[1][1] = "created"
  /\ log[2][1] = "created"
  /\ log[3] = <<"deleted", log[2][2]>>
  /\ log[4][1] = "created"

\* C10 as stated: the creations name "1", "2" and then, "2" having been
\* deleted, "3".
C10_Original ==
  CreatedCreatedDeletedCreated =>
    /\ log[1][2] = ONE
    /\ log[2][2] = TWO
    /\ log[4][2] = THREE

\* C10, amended: the creations name "1", "2" and then, "2" having been
\* deleted, "2" again: the name is 1 + the largest number present.
C10_DeletedMaxReused ==
  /\ (BucketNamesOf(root0) = {} /\ Len(log) >= 1 /\ log[1][1] = "created")
       => log[1][2] = ONE
  /\ (BucketNamesOf(root0) = {} /\ Len(log) >= 2 /\ log[1][1] = "created"
        /\ log[2][1] = "created") => log[2][2] = TWO
  /\ CreatedCreatedDeletedCreated => log[4][2] = TWO

C10_Witness ==
  /\ CreatedCreatedDeletedCreated
  /\ TWO \in BucketNamesOf(root)


\* ------------------------------------------------------------------ C11
\* The name holds a path separator or two dots in a row.
HasSeparatorOrDotDot(name) ==
  /\ name # Undefined
  /\ \/ \E i \in DOMAIN name : name[i] \in {"/", "\\"}
     \/ \E i \in DOMAIN name : i < Len(name) /\ name[i] = "." /\ name[i + 1] = "."

AllDigits(name) ==
  /\ name # Undefined
  /\ name # <<>>
  /\ \A i \in DOMAIN name : name[i] \in {"0", "1", "2", "3", "4", "5", "6", "7", "8", "9"}

\* The handler of slot p has answered without a filesystem call and the
\* tree is as the request found it.
AnsweredUntouched(p, code) ==
  /\ resp[p].status = 400
  /\ resp[p].error = code
  /\ loc[p].calls = <<>>
  /\ root = pre[p]

\* C11 as stated: every move or image request whose image name holds a
\* separator or ".." is answered 400 INVALID_IMAGE_NAME, and every move
\* request whose bucket name is not all digits is answered
\* 400 INVALID_BUCKET_NAME, without a filesystem call.
C11_Original ==
  \A p \in Procs :
    pc[p] = "done" =>
      /\ (req[p].op \in {"move", "image"} /\ HasSeparatorOrDotDot(req[p].imageName))
           => AnsweredUntouched(p, "INVALID_IMAGE_NAME")
      /\ (req[p].op = "move" /\ ~AllDigits(req[p].bucketName))
           => AnsweredUntouched(p, "INVALID_BUCKET_NAME")

\* C11, amended: with IMAGE_ROOT set, every move or image request whose
\* image name holds a separator or ".." is answered 400 INVALID_IMAGE_NAME,
\* whether or not the root holds a file of that name; every move request
\* whose image name is valid and whose bucket name is not all digits is
\* answered 400 INVALID_BUCKET_NAME; a move request with both names invalid
\* is answered INVALID_IMAGE_NAME.  In each case no filesystem call is made
\* and the tree is unchanged.
C11_InvalidNamesRefused ==
  \A p \in Procs :
    pc[p] = "done" =>
      /\ (req[p].op \in {"move", "image"} /\ HasSeparatorOrDotDot(req[p].imageName))
           => AnsweredUntouched(p, "INVALID_IMAGE_NAME")
      /\ (req[p].op = "move" /\ ~AllDigits(req[p].bucketName))
           => \/ AnsweredUntouched(p, "INVALID_BUCKET_NAME")
              \/ /\ AnsweredUntouched(p, "INVALID_IMAGE_NAME")
                 /\ ~(isSafeLeafName(req[p].imageName) /\ isImageFileName(req[p].imageName))
      /\ (req[p].op = "move" /\ ~AllDigits(req[p].bucketName)
            /\ req[p].imageName \in {A_JPG, B_PNG, X_GIF})
           => AnsweredUntouched(p, "INVALID_BUCKET_NAME")

\* A move naming a file of the root whose name holds ".." has been refused.
C11_Witness ==
  /\ pc[1] = "done" /\ req[1].op = "move"
  /\ req[1].imageName = A_DOTDOT_JPG /\ A_DOTDOT_JPG \in DOMAIN root
  /\ AllDigits(req[1].bucketName)
  /\ resp[1].error = "INVALID_IMAGE_NAME"


\* ------------------------------------------------------------------ C13
\* The stats st are those of its bucket in tree r: every file's bytes, the
\* image files' count.
StatsTrue(r, st) ==
  /\ st.name \in BucketNamesOf(r)
  /\ st.totalBytes = BytesIn(r, st.name)
  /\ st.photoCount = PhotosIn(r, st.name)

\* C13: every bucket stats the server reports (in the state, after a
\* creation, after a move) has totalBytes = the sum of the sizes of all the
\* files of the folder, non-images included, and photoCount = the number of
\* its files with an allow-listed extension; and the capacity check of a
\* move refuses on photos only when the image files plus one exceed the
\* photo cap, refuses on bytes only when all the files' bytes plus the
\* image's exceed the byte cap, and lets the move through only when neither
\* does.
C13_StatsCountAllBytes ==
  \A p \in Procs :
    /\ (pc[p] = "done" /\ resp[p].error = "BUCKET_FULL_PHOTOS") =>
         PhotosIn(pre[p], req[p].bucketName) + 1 > MAX_BUCKET_PHOTOS
    /\ (pc[p] = "done" /\ resp[p].error = "BUCKET_FULL_BYTES") =>
         /\ PhotosIn(pre[p], req[p].bucketName) + 1 <= MAX_BUCKET_PHOTOS
         /\ BytesIn(pre[p], req[p].bucketName) + pre[p][req[p].imageName].size
              > MAX_BUCKET_BYTES
    /\ (pc[p] = "done" /\ resp[p].status = 200) =>
         /\ req[p].op = "state" =>
              \A i \in DOMAIN resp[p].state.buckets :
                StatsTrue(root, resp[p].state.buckets[i])
         /\ req[p].op \in {"buckets", "move"} => StatsTrue(root, resp[p].bucket)
         /\ req[p].op = "move" =>
              /\ PhotosIn(pre[p], req[p].bucketName) + 1 <= MAX_BUCKET_PHOTOS
              /\ BytesIn(pre[p], req[p].bucketName) + pre[p][req[p].imageName].size
                   <= MAX_BUCKET_BYTES

\* The state has reported a bucket with two files, one of them no image,
\* as one photo and two bytes.
C13_Witness ==
  \E p \in Procs :
    /\ pc[p] = "done" /\ req[p].op = "state" /\ resp[p].status = 200
    /\ \E i \in DOMAIN resp[p].state.buckets :
         LET st == resp[p].state.buckets[i]
         IN  /\ N_TXT \in FilesIn(root, st.name)
             /\ st.photoCount = 1
             /\ st.totalBytes = 2


\* ------------------------------------------------------------------ C16
\* The position of the call named c among the calls of slot p, 0 if none.
CallAt(p, c) ==
  IF \E i \in DOMAIN loc[p].calls : loc[p].calls[i][1] = c
    THEN CHOOSE i \in DOMAIN loc[p].calls : loc[p].calls[i][1] = c
    ELSE 0

\* The image slot p was asked to move is in the root as the request found it.
SourceInPlace(p) ==
  /\ req[p].imageName \in DOMAIN root
  /\ root[req[p].imageName] = pre[p][req[p].imageName]

\* C16: in a move, fs.copyFile is called only right after fs.rename failed
\* with EXDEV, fs.unlink only right after fs.copyFile succeeded, and a rename
\* failing otherwise, or a failing copy, ends the request with
\* 500 MOVE_FAILED and the source file in the root as it was.
C16_FallbackOnlyOnExdev ==
  \A p \in Procs :
    req[p].op = "move" =>
      LET calls == loc[p].calls
          r == CallAt(p, "rename")
          c == CallAt(p, "copyFile")
          u == CallAt(p, "unlink")
      IN  /\ c # 0 => (r = c - 1 /\ calls[r] = <<"rename", "EXDEV">>)
          /\ u # 0 => (c = u - 1 /\ calls[c] = <<"copyFile", "ok">>)
          /\ (r # 0 /\ calls[r][2] \notin {"ok", "EXDEV"}) =>
               /\ pc[p] = "done"
               /\ resp[p] = Error(500, "MOVE_FAILED")
               /\ SourceInPlace(p)
               /\ c = 0 /\ u = 0
          /\ (c # 0 /\ calls[c][2] # "ok") =>
               /\ pc[p] = "done"
               /\ resp[p] = Error(500, "MOVE_FAILED")
               /\ SourceInPlace(p)
               /\ u = 0

\* A rename has failed with EXDEV and the copy after it has failed.
C16_Witness ==
  \E p \in Procs :
    /\ pc[p] = "done"
    /\ req[p].op = "move"
    /\ \E i \in DOMAIN loc[p].calls :
         /\ loc[p].calls[i] = <<"rename", "EXDEV">>
         /\ loc[p].calls[i + 1] = <<"copyFile", "EIO after dest is opened">>
    /\ resp[p].error = "MOVE_FAILED"
    /\ SourceInPlace(p)


\* ------------------------------------------------------------------ C12
\* The value of a string of digits.
RECURSIVE NumericValue(_)
NumericValue(s) ==
  IF s = <<>> THEN 0
  ELSE LET last == s[Len(s)]
           d == CHOOSE k \in 0..9 :
                  <<"0", "1", "2", "3", "4", "5", "6", "7", "8", "9">>[k + 1] = last
       IN  10 * NumericValue(SubSeq(s, 1, Len(s) - 1)) + d

\* C12: a successful GET /api/state lists the buckets in ascending order of
\* their names' numeric value, each once, and they are exactly the
\* directories of the root whose names are all digits.
C12_BucketsInNumericOrder ==
  \A p \in Procs :
    (pc[p] = "done" /\ req[p].op = "state" /\ resp[p].status = 200) =>
      LET bs == resp[p].state.buckets
      IN  /\ \A i, j \in DOMAIN bs :
                i < j => /\ NumericValue(bs[i].name) <= NumericValue(bs[j].name)
                         /\ bs[i].name # bs[j].name
          /\ {bs[i].name : i \in DOMAIN bs}
               = {n \in DOMAIN root : root[n].kind = "dir" /\ AllDigits(n)}

\* The state lists bucket 9 right before bucket 10, next to a folder and a
\* file that are no buckets.
C12_Witness ==
  \E p \in Procs :
    /\ pc[p] = "done" /\ req[p].op = "state" /\ resp[p].status = 200
    /\ {ONE_X, THREE} \subseteq DOMAIN root
    /\ \E i \in DOMAIN resp[p].state.buckets :
         /\ i > 1
         /\ resp[p].state.buckets[i - 1].name = NINE
         /\ resp[p].state.buckets[i].name = TEN

\* ------------------------------------------------------------------ C14
\* C14: GET /api/state answers 400 IMAGE_ROOT_NOT_SET when IMAGE_ROOT is not
\* set and 500 STATE_FAILED when it names nothing or no directory; it
\* answers 200 only when IMAGE_ROOT names a directory.
C14_RootErrorsDistinct ==
  \A p \in Procs :
    (pc[p] = "done" /\ req[p].op = "state") =>
      /\ imageRoot = "unset" => resp[p] = Error(400, "IMAGE_ROOT_NOT_SET")
      /\ imageRoot \in {"missing", "file"} => resp[p] = Error(500, "STATE_FAILED")
      /\ resp[p].status = 200 => imageRoot = "dir"

\* The state has been refused because IMAGE_ROOT names a file.
C14_Witness ==
  \E p \in Procs :
    /\ pc[p] = "done" /\ req[p].op = "state"
    /\ imageRoot = "file"
    /\ resp[p].status = 500


\* ------------------------------------------------------------------ C15
\* Slot p is a move into bucket b that has passed its capacity check.
PassedCapacityInto(p, b) ==
  /\ req[p].op = "move"
  /\ req[p].bucketName = b
  /\ \E i \in DOMAIN loc[p].calls : loc[p].calls[i] = <<"getBucketStats", "ok">>
  /\ resp[p].status # 409

\* C15: with two overlapping requests on buckets that start within the
\* caps, a bucket never holds more than MAX_BUCKET_PHOTOS + 1 photos, and it
\* holds more than MAX_BUCKET_PHOTOS only when both requests are moves into
\* it that passed the capacity check.
C15_OvershootByOne ==
  \A b \in BucketNamesOf(root) :
    /\ PhotosIn(root, b) <= MAX_BUCKET_PHOTOS + 1
    /\ PhotosIn(root, b) > MAX_BUCKET_PHOTOS =>
         \A p \in Procs : PassedCapacityInto(p, b)

\* Two moves of different images into one bucket have both succeeded and
\* the bucket holds one photo more than the cap.
C15_Witness ==
  /\ \A p \in Procs : pc[p] = "done" /\ req[p].op = "move" /\ resp[p].status = 200
  /\ req[1].imageName # req[2].imageName
  /\ req[1].bucketName = req[2].bucketName
  /\ PhotosIn(root, req[1].bucketName) = MAX_BUCKET_PHOTOS + 1
  /\ \A p \in Procs : resp[p].bucket.photoCount <= MAX_BUCKET_PHOTOS + 1


\* ------------------------------------------------------------------ C17
\* The calls of a move that come before its relocation step, all passed.
ChecksPassed ==
  << <<"access bucket", "ok">>, <<"access dest", "ENOENT">>, <<"stat", "ok">>,
     <<"getBucketStats", "ok">> >>

\* Slot p has made a call that writes to the filesystem.
HasWritten(p) ==
  \E i \in DOMAIN loc[p].calls : loc[p].calls[i][1] \in {"rename", "copyFile", "unlink"}

\* The move of slot p has made no writing call before its four checks had
\* passed, in order, on valid names.
WritesAfterChecks(p) ==
  HasWritten(p) =>
    /\ ~HasSeparatorOrDotDot(req[p].imageName)
    /\ AllDigits(req[p].bucketName)
    /\ Len(loc[p].calls) > Len(ChecksPassed)
    /\ SubSeq(loc[p].calls, 1, Len(ChecksPassed)) = ChecksPassed

\* The move of slot p goes on to its relocation step only if the bucket,
\* as it is on disk at that moment, has room for the image.
CapacityMeasuredOnDisk(p) ==
  (pc[p] = "getBucketStats" /\ pc'[p] = "rename") =>
    /\ PhotosIn(root, req[p].bucketName) + 1 <= MAX_BUCKET_PHOTOS
    /\ BytesIn(root, req[p].bucketName) + loc[p].srcSize <= MAX_BUCKET_BYTES

\* C17: a move makes no writing call (rename, copyFile, unlink) before name
\* validation, the bucket-exists check, the destination-absent check, the
\* source check and the capacity check have passed, in that order; and the
\* capacity check passes only on the bucket's content on disk at the time
\* of the check, whatever it was when the request was sent.
C17_ChecksBeforeWrite ==
  /\ [](\A p \in Procs : req[p].op = "move" => WritesAfterChecks(p))
  /\ [][\A p \in Procs : CapacityMeasuredOnDisk(p)]_vars

\* A move is past its capacity check, about to rename, on a bucket that
\* another request has changed since this one arrived.
C17_Witness ==
  \E p \in Procs :
    /\ pc[p] = "rename"
    /\ req[p].bucketName \in BucketNamesOf(root) \cap BucketNamesOf(pre[p])
    /\ PhotosIn(root, req[p].bucketName) = PhotosIn(pre[p], req[p].bucketName) + 1
    /\ PhotosIn(root, req[p].bucketName) + 1 = MAX_BUCKET_PHOTOS


\* ------------------------------------------------------------------ C18
\* Every file of tree r with its place: <<folder, name, file>>, the folder
\* being <<>> for the root or the name of a folder of the root.
PlacedFiles(r) ==
  {<<NoName, n, r[n]>> : n \in {x \in DOMAIN r : r[x].kind = "file"}}
    \cup UNION { {<<b, n, r[b].ents[n]>> : n \in FilesIn(r, b)} :
                 b \in {x \in DOMAIN r : r[x].kind = "dir"} }

\* Every file the tree started with is in exactly one place, as it was, and
\* the tree holds no other file.
Conserved ==
  /\ \A f \in PlacedFiles(root0) :
       Cardinality({g \in PlacedFiles(root) : g[3] = f[3]}) = 1
  /\ \A g \in PlacedFiles(root) : \E f \in PlacedFiles(root0) : g[3] = f[3] /\ g[2] = f[2]

\* No request has fallen back to copy and unlink.
RenamePath == \A p \in Procs : loc[p].path # "copy"

\* C18: while every relocation is a rename, under any interleaving of two
\* requests every file the tree started with is in exactly one place with
\* its name, size and bytes unchanged, and of two answered moves of the same
\* image at most one is a success, the other an error.
C18_FilesConserved ==
  RenamePath =>
    /\ Conserved
    /\ \A p, q \in Procs :
         (p # q /\ pc[p] = "done" /\ pc[q] = "done"
            /\ req[p].op = "move" /\ req[q].op = "move"
            /\ req[p].imageName = req[q].imageName)
           => /\ ~(resp[p].status = 200 /\ resp[q].status = 200)
              /\ resp[p].status = 200 => resp[q].status >= 400

\* Two overlapping moves of one image into different buckets, both past
\* every check before either renamed: one has succeeded, the other has
\* failed on its rename.
C18_Witness ==
  /\ RenamePath
  /\ \A p \in Procs : pc[p] = "done" /\ req[p].op = "move" /\ req[p].imageName = A_JPG
  /\ req[1].bucketName # req[2].bucketName
  /\ resp[1].status = 200
  /\ resp[2] = Error(500, "MOVE_FAILED")
  /\ loc[2].calls[Len(loc[2].calls)] = <<"rename", "ENOENT">>


\* ------------------------------------------------------------------ C19
\* Both slots hold the answer to a bucket creation, one of them arrived
\* while the other was being handled, and both computed the same name.
BothCreatedSameName ==
  /\ \A p \in Procs : pc[p] = "done" /\ req[p].op = "buckets" /\ loc[p].name # NoName
  /\ \E p \in Procs : loc[p].during # {}
  /\ loc[1].name = loc[2].name

Successes == {p \in Procs : resp[p].status = 200}

\* C19 as stated: when two overlapping creations computed the same name,
\* exactly one folder is created: one request answers 200 and the other
\* 500 CREATE_BUCKET_FAILED.
C19_Original ==
  BothCreatedSameName =>
    /\ Cardinality(Successes) = 1
    /\ \A p \in Procs \ Successes : resp[p] = Error(500, "CREATE_BUCKET_FAILED")
    /\ loc[1].name \in BucketNamesOf(root) \ BucketNamesOf(root0)

\* C19, amended: when two overlapping creations computed the same name, at
\* most one folder is created: at most one request answers 200 and every
\* other answers 500 CREATE_BUCKET_FAILED; exactly one answers 200 when the
\* root had no entry of that name, none (and nothing is created) when it
\* had one.  No two successful creations name the same bucket.
C19_OneCreation ==
  /\ BothCreatedSameName =>
       /\ Cardinality(Successes) <= 1
       /\ \A p \in Procs \ Successes : resp[p] = Error(500, "CREATE_BUCKET_FAILED")
       /\ IF loc[1].name \in DOMAIN root0
            THEN Successes = {} /\ root = root0
            ELSE /\ Cardinality(Successes) = 1
                 /\ loc[1].name \in BucketNamesOf(root)
  /\ \A p, q \in Procs :
       (p # q /\ pc[p] = "done" /\ pc[q] = "done"
          /\ req[p].op = "buckets" /\ req[q].op = "buckets"
          /\ resp[p].status = 200 /\ resp[q].status = 200)
         => resp[p].bucket.name # resp[q].bucket.name

\* Two creations computed the same free name; the first has succeeded and
\* the second has failed on its mkdir.
C19_Witness ==
  /\ BothCreatedSameName
  /\ loc[1].name \notin DOMAIN root0
  /\ resp[1].status = 200
  /\ resp[2] = Error(500, "CREATE_BUCKET_FAILED")
  /\ loc[2].calls = << <<"readdir", "ok">>, <<"mkdir", "EEXIST">> >>


\* ------------------------------------------------------------------ C20
\* The snapshot is the state of tree r: its root images with their sizes
\* and its buckets, each once, with their true stats.
SnapshotTrue(snapshot, r) ==
  /\ DOMAIN snapshot.images = {n \in DOMAIN r : r[n].kind = "file" /\ isImageFileName(n)}
  /\ \A n \in DOMAIN snapshot.images : snapshot.images[n] = r[n].size
  /\ {snapshot.buckets[i].name : i \in DOMAIN snapshot.buckets} = BucketNamesOf(r)
  /\ Len(snapshot.buckets) = Cardinality(BucketNamesOf(r))
  /\ \A i \in DOMAIN snapshot.buckets : StatsTrue(r, snapshot.buckets[i])

\* The server, measuring tree r, refuses the move of img into b for a cap.
ServerRefusesForCap(r, img, b) ==
  \/ PhotosIn(r, b) + 1 > MAX_BUCKET_PHOTOS
  \/ BytesIn(r, b) + r[img].size > MAX_BUCKET_BYTES

\* A drop made on a true snapshot sent a move request exactly when the
\* server would not refuse it for a cap, and the request names the dragged
\* image and the bucket dropped on.
GateAgrees ==
  /\ (client.drop # NoDrop /\ SnapshotTrue(client.drop.seen, client.drop.tree)) =>
       (client.drop.issued <=>
          ~ServerRefusesForCap(client.drop.tree, client.drop.image, client.drop.bucket))
  /\ (client.phase = "moving" /\ req[ClientSlot].op = "move") =>
       /\ client.drop.issued
       /\ req[ClientSlot].imageName = client.drop.image
       /\ req[ClientSlot].bucketName = client.drop.bucket
  /\ (req[ClientSlot].op = "move" /\ req[OtherSlot].op = "none") =>
       resp[ClientSlot].error \notin {"BUCKET_FULL_PHOTOS", "BUCKET_FULL_BYTES"}

\* When the client's move request is answered, with whatever status, the
\* client clears the dragged image and sends GET /api/state.
ClearsAndRefetches ==
  (client.phase = "moving" /\ client'.phase # "moving") =>
    /\ pc[ClientSlot] = "done"
    /\ req[ClientSlot].op = "move"
    /\ client'.dragged = NoName
    /\ client'.phase = "refreshing"

\* C20: on a snapshot equal to the state on disk, a drop sends a move
\* request if and only if the server's capacity check would not refuse it;
\* and when that request is answered, success or error, the client clears
\* the dragged image and fetches the state again.
C20_DropGateAgrees ==
  /\ []GateAgrees
  /\ [][ClearsAndRefetches]_vars

\* The client dropped on a true snapshot, its move was answered with an
\* error, and with the dragged image cleared its GET /api/state has reached
\* the server.
C20_Witness ==
  /\ client.phase = "refreshing"
  /\ client.drop.issued
  /\ SnapshotTrue(client.drop.seen, client.drop.tree)
  /\ client.dragged = NoName
  /\ moved = {}
  /\ req[OtherSlot].op = "none"
  /\ req[ClientSlot].op = "state"
  /\ client.drop.image \in DOMAIN root

====
